---- MODULE Spec2Model ----
(***************************************************************************)
(* Model of the NeuroZK-Trader core: horizon-to-steps conversion and the   *)
(* feature/label builder (src/ai/core.py), and the vectorised backtest     *)
(* with its trade segmentation (src/ai/backtest.py).                       *)
(*                                                                         *)
(* Representation.  A candle series is the sequence of its close prices,   *)
(* TLA+ index t+1 standing for pandas row t.  A float is an exact rational *)
(* <<n, d>> with d > 0 in lowest terms; NaN is <<0, 0>>.  A probability    *)
(* and a threshold are in hundredths (0.55 is 55).  A bar string is the    *)
(* sequence of its characters.  A pandas Series is a record of its index   *)
(* labels and its values, two sequences of one length.                     *)
(***************************************************************************)
EXTENDS Integers, Sequences, FiniteSets, TLC

VARIABLES pc, call, df, cfg, args, out

vars == <<pc, call, df, cfg, args, out>>

(***************************************************************************)
(* Bounds of the model.                                                    *)
(***************************************************************************)
MaxLen == 4           \* most candles in a series
MaxClose == 2         \* close prices are 1..MaxClose
MaxHorizon == 3       \* horizons (minutes) of a backtest run are 1..MaxHorizon
MaxHorizonMin == 2900 \* horizons (minutes) given to _bar_to_steps are 0..MaxHorizonMin
MaxEquity == 2        \* equity values given to _trade_stats_from_series are 0..MaxEquity

(***************************************************************************)
(* Exact arithmetic on floats.                                             *)
(***************************************************************************)
NaN == <<0, 0>>

Abs(x) == IF x < 0 THEN -x ELSE x

Max(a, b) == IF a >= b THEN a ELSE b

Min(a, b) == IF a <= b THEN a ELSE b

RECURSIVE GCD(_, _)
GCD(a, b) == IF b = 0 THEN a ELSE GCD(b, a % b)

Rat(n, d) ==
    LET g == GCD(Abs(n), Abs(d))
        s == IF d < 0 THEN -1 ELSE 1
    IN  <<(s * n) \div g, (s * d) \div g>>

RatInt(n) == <<n, 1>>

RatAdd(a, b) == Rat(a[1] * b[2] + b[1] * a[2], a[2] * b[2])

RatSub(a, b) == Rat(a[1] * b[2] - b[1] * a[2], a[2] * b[2])

RatMul(a, b) ==
    LET g1 == GCD(Abs(a[1]), b[2])
        g2 == GCD(Abs(b[1]), a[2])
    IN  Rat((a[1] \div g1) * (b[1] \div g2), (a[2] \div g2) * (b[2] \div g1))

RatDiv(a, b) == Rat(a[1] * b[2], a[2] * b[1])

RatGT(a, b) == a[1] * b[2] > b[1] * a[2]

RatGE(a, b) == a[1] * b[2] >= b[1] * a[2]

isna(v) == v[2] = 0

fillna(v, w) == IF isna(v) THEN w ELSE v

\* Float operations, NaN propagating.
FAdd(a, b) == IF isna(a) \/ isna(b) THEN NaN ELSE RatAdd(a, b)

FSub(a, b) == IF isna(a) \/ isna(b) THEN NaN ELSE RatSub(a, b)

FMul(a, b) == IF isna(a) \/ isna(b) THEN NaN ELSE RatMul(a, b)

\* Close prices are positive, so no division by zero arises.
FDiv(a, b) == IF isna(a) \/ isna(b) THEN NaN ELSE RatDiv(a, b)

\* A comparison with NaN is False.
FGE(a, b) == ~isna(a) /\ ~isna(b) /\ RatGE(a, b)

FGT(a, b) == ~isna(a) /\ ~isna(b) /\ RatGT(a, b)

(***************************************************************************)
(* Bar strings: str.strip, str.lower on one character, int().              *)
(***************************************************************************)
DigitValue ==
    [c \in {"0", "1", "2", "3", "4", "5", "6", "7", "8", "9"} |->
        CASE c = "0" -> 0 [] c = "1" -> 1 [] c = "2" -> 2 [] c = "3" -> 3
          [] c = "4" -> 4 [] c = "5" -> 5 [] c = "6" -> 6 [] c = "7" -> 7
          [] c = "8" -> 8 [] c = "9" -> 9]

RECURSIVE strip(_)
strip(s) ==
    IF s = <<>> THEN s
    ELSE IF Head(s) = " " THEN strip(Tail(s))
    ELSE IF s[Len(s)] = " " THEN strip(SubSeq(s, 1, Len(s) - 1))
    ELSE s

lower(c) ==
    CASE c = "M" -> "m" [] c = "H" -> "h" [] c = "D" -> "d" [] c = "W" -> "w"
      [] OTHER -> c

RECURSIVE DecimalValue(_)
DecimalValue(s) ==
    IF s = <<>> THEN 0
    ELSE 10 * DecimalValue(SubSeq(s, 1, Len(s) - 1)) + DigitValue[s[Len(s)]]

\* int(bar[:-1]) inside try/except: the parsed value, or 1 on ValueError.
IntOrOne(s) ==
    IF s # <<>> /\ \A i \in 1..Len(s) : s[i] \in DOMAIN DigitValue
    THEN DecimalValue(s)
    ELSE 1

_bar_to_steps(bar, horizon_min) ==
    LET unit == lower(bar[Len(bar)])
        val == IntOrOne(SubSeq(bar, 1, Len(bar) - 1))
    IN  IF unit = "m" THEN Max(1, horizon_min \div val)
        ELSE IF unit = "h" THEN Max(1, (horizon_min \div 60) \div Max(1, val))
        ELSE Max(1, horizon_min)

_bar_to_minutes(bar0) ==
    LET bar == strip(bar0)
        unit == lower(bar[Len(bar)])
        val == IntOrOne(SubSeq(bar, 1, Len(bar) - 1))
    IN  IF unit = "m" THEN Max(1, val)
        ELSE IF unit = "h" THEN Max(1, 60 * val)
        ELSE IF unit = "d" THEN Max(1, 60 * 24 * val)
        ELSE 1


(***************************************************************************)
(* pandas and numpy operations on sequences of values.                     *)
(***************************************************************************)
\* The sequence f written out as a tuple: the same value, each element
\* evaluated once.
Tuple(f) == f \o <<>>

Series(index, values) == [index |-> index, values |-> values]

RangeIndex(n) == Tuple([i \in 1..n |-> i - 1])

\* Series.shift(periods): row t takes the value of row t - periods, NaN outside.
shift(s, periods) ==
    Tuple([t \in 1..Len(s) |->
        IF t - periods \in 1..Len(s) THEN s[t - periods] ELSE NaN])

\* Series.pct_change(k): s[t] / s[t-k] - 1, NaN on the first k rows.
pct_change(s, k) ==
    LET prev == shift(s, k)
    IN  Tuple([t \in 1..Len(s) |-> FSub(FDiv(s[t], prev[t]), RatInt(1))])

\* Boolean-mask selection: the rows of s whose mask is TRUE, in order.
RECURSIVE Masked(_, _)
Masked(s, mask) ==
    IF s = <<>> THEN <<>>
    ELSE LET rest == Masked(Tail(s), Tail(mask))
         IN  IF Head(mask) THEN <<Head(s)>> \o rest ELSE rest

\* np.roll(a, 1)
roll(a) ==
    Tuple([t \in 1..Len(a) |-> IF t = 1 THEN a[Len(a)] ELSE a[t - 1]])

\* np.cumprod of floats
RECURSIVE cumprod(_)
cumprod(a) ==
    IF a = <<>> THEN <<>>
    ELSE IF Len(a) = 1 THEN a
    ELSE LET init == cumprod(SubSeq(a, 1, Len(a) - 1))
         IN  Append(init, FMul(init[Len(init)], a[Len(a)]))

\* Series.loc[label] on a unique index
loc(s, label) ==
    s.values[CHOOSE i \in 1..Len(s.index) : s.index[i] = label]

(***************************************************************************)
(* FeatureBuilder.build_from_candles.  Of the feature columns only ret_1   *)
(* is carried: the others feed the classifier alone, whose output is an    *)
(* input of the model.                                                     *)
(***************************************************************************)
\* Mutants of future_close: the shift one row short, and one row long.
future_close_short(close, horizon_steps) == shift(close, -(horizon_steps - 1))

future_close_long(close, horizon_steps) == shift(close, -(horizon_steps + 1))

future_close(close, horizon_steps) == shift(close, -horizon_steps)

build_from_candles(candles, horizon_steps) ==
    LET n == Len(candles)
        index == RangeIndex(n)
        close == Tuple([t \in 1..n |-> RatInt(candles[t])])
        pct_1 == pct_change(close, 1)
        ret_1 == Tuple([t \in 1..n |-> fillna(pct_1[t], RatInt(0))])
        future == future_close(close, horizon_steps)
        y == Tuple([t \in 1..n |->
                fillna(FSub(FDiv(future[t], close[t]), RatInt(1)), RatInt(0))])
        y_cls == Tuple([t \in 1..n |-> IF FGE(y[t], RatInt(0)) THEN 1 ELSE 0])
        valid_idx == Tuple([t \in 1..n |-> ~isna(future[t])])
    IN  [X |-> Series(Masked(index, valid_idx), Masked(ret_1, valid_idx)),
         y |-> Series(Masked(index, valid_idx), Masked(y_cls, valid_idx))]


(***************************************************************************)
(* Backtest: signals, trade segmentation, run_backtest.  A signal and a    *)
(* position are the integers -1, 0, 1.                                     *)
(***************************************************************************)
_signals_from_probs(probs, thr_long, thr_short) ==
    Tuple([t \in 1..Len(probs) |->
        IF probs[t] < thr_short THEN -1
        ELSE IF probs[t] > thr_long THEN 1
        ELSE 0])

\* pos.shift(periods).fillna(0) on integer positions
shift_fill0(pos, periods) ==
    Tuple([t \in 1..Len(pos) |->
        IF t - periods \in 1..Len(pos) THEN pos[t - periods] ELSE 0])

\* Mutant of trade_starts: a start at every change into a non-zero position.
trade_starts_on_change(pos) ==
    [t \in 1..Len(pos) |-> shift_fill0(pos, 1)[t] # pos[t] /\ pos[t] # 0]

trade_starts(pos) ==
    LET prev == shift_fill0(pos, 1)
    IN  Tuple([t \in 1..Len(pos) |-> prev[t] = 0 /\ pos[t] # 0])

trade_ends(pos) ==
    LET next == shift_fill0(pos, -1)
    IN  Tuple([t \in 1..Len(pos) |-> pos[t] # 0 /\ next[t] = 0])

\* Mutant of is_win: a trade that ends level counted as a win.
is_win_or_level(equity, start, end) == FGE(loc(equity, end), loc(equity, start))

\* equity.loc[end_idx[i]] > equity.loc[start_idx[i]]
is_win(equity, start, end) == FGT(loc(equity, end), loc(equity, start))

_trade_stats_from_series(equity, positions) ==
    LET pos == positions.values
        start_idx == Masked(equity.index, trade_starts(pos))
        end_idx == Masked(equity.index, trade_ends(pos))
        n == Min(Len(start_idx), Len(end_idx))
        wins == Cardinality({i \in 1..n : is_win(equity, start_idx[i], end_idx[i])})
        total == IF n > 0 THEN n ELSE 1
    IN  [n |-> n, win_rate |-> Rat(100 * wins, total), wins |-> wins,
         start_idx |-> start_idx, end_idx |-> end_idx]

\* The series run_backtest hands to _trade_stats_from_series as positions.
reported_positions(sig, sig_shift) == sig

\* Mutant of lagged: the roll without the reset of row 0.
lagged_wrap(sig) == roll(sig)

\* sig_shift = np.roll(sig, 1); sig_shift[0] = 0
lagged(sig) == Tuple([roll(sig) EXCEPT ![1] = 0])

\* Mutant of turnover_of: a flat charge per position change, whatever its size.
turnover_flag(sig, sig_shift) ==
    [t \in 1..Len(sig) |-> IF sig[t] # sig_shift[t] THEN 1 ELSE 0]

turnover_of(sig, sig_shift) ==
    Tuple([t \in 1..Len(sig) |-> Abs(sig[t] - sig_shift[t])])

\* Mutant of cost_rate: the slippage left out.
cost_rate_fee_only(c) == Rat(c.fee_bps, 10000)

cost_rate(c) == Rat(c.fee_bps + c.slip_bps, 10000)

\* np.mean and the square of np.std (population variance) of floats
RECURSIVE sum(_)
sum(a) == IF a = <<>> THEN RatInt(0) ELSE FAdd(Head(a), sum(Tail(a)))

mean(a) == FDiv(sum(a), RatInt(Len(a)))

variance(a) ==
    LET m == mean(a)
    IN  mean(Tuple([i \in 1..Len(a) |-> FMul(FSub(a[i], m), FSub(a[i], m))]))

\* The constant 1e-12, as mantissa and decimal exponent.
Epsilon == [mant |-> 1, exp |-> -12]

\* std_r > 0 for std_r = np.std(strat_ret) + 1e-12: the root of the variance
\* is never negative, so the sum is positive when either term is.
std_r_positive(var) == var[1] > 0 \/ (var[1] = 0 /\ Epsilon.mant > 0)

Sign(x) == IF x > 0 THEN 1 ELSE IF x < 0 THEN -1 ELSE 0

\* periods_per_year of _annualization_factor, the square of the factor.
periods_per_year(bar) == Rat(365 * 24 * 60, _bar_to_minutes(bar))

\* The sign of sharpe = (mean_r / std_r) * ann_factor if std_r > 0 else 0.0;
\* its magnitude holds two square roots and is not carried.
sharpe_sign(mean_r, var, bar) ==
    IF std_r_positive(var)
    THEN Sign(mean_r[1]) * Sign(periods_per_year(bar)[1])
    ELSE 0

run_backtest(candles, c, probs) ==
    LET steps == _bar_to_steps(c.bar, c.horizon)
        built == build_from_candles(candles, steps)
        X == built.X
        k == Len(X.index)
        prices == Tuple([t \in 1..Len(candles) |-> RatInt(candles[t])])
        pct == pct_change(prices, 1)
        ret == Tuple([i \in 1..k |-> fillna(pct[X.index[i] + 1], RatInt(0))])
        sig == _signals_from_probs(probs, c.thr_long, c.thr_short)
    IN  IF k = 0
        THEN [raised |-> TRUE, exc |-> "IndexError"]
        ELSE
        LET sig_shift == lagged(sig)
            gross == Tuple([i \in 1..k |-> FMul(RatInt(sig_shift[i]), ret[i])])
            turnover == turnover_of(sig, sig_shift)
            cost_bps == cost_rate(c)
            cost == Tuple([i \in 1..k |-> FMul(RatInt(turnover[i]), cost_bps)])
            strat_ret == Tuple([i \in 1..k |-> FSub(gross[i], cost[i])])
            growth == cumprod(Tuple([i \in 1..k |-> FAdd(RatInt(1), strat_ret[i])]))
            equity == Series(X.index,
                             Tuple([i \in 1..k |-> FMul(RatInt(c.initial), growth[i])]))
            mean_r == mean(strat_ret)
            var_r == variance(strat_ret)
            positions == Series(X.index, reported_positions(sig, sig_shift))
            stats == _trade_stats_from_series(equity, positions)
        IN  [raised |-> FALSE,
             samples |-> k,
             trades |-> stats.n,
             win_rate_pct |-> stats.win_rate,
             final_equity |-> IF k > 0 THEN equity.values[k] ELSE RatInt(c.initial),
             equity |-> equity,
             positions |-> positions,
             index |-> X.index,
             sig |-> sig, sig_shift |-> sig_shift, ret |-> ret,
             gross |-> gross, turnover |-> turnover, cost |-> cost,
             strat_ret |-> strat_ret,
             mean_r |-> mean_r,
             var_r |-> var_r,
             sharpe_sign |-> sharpe_sign(mean_r, var_r, c.bar)]

(***************************************************************************)
(* Inputs.                                                                 *)
(***************************************************************************)
Bars ==
    { <<"1", "m">>, <<"2", "m">>, <<"5", "m">>, <<"1", "5", "m">>,
      <<"1", "h">>, <<"1", "H">>, <<"2", "H">>, <<"4", "H">>,
      <<"1", "d">>, <<"1", "D">>, <<"2", "D">>,
      <<"m">>, <<"1", "w">> }

\* BacktestConfig defaults; 0.55 and 0.45 in hundredths.
ThrLong == 55
ThrShort == 45

Config(bar, horizon, fee_bps, slip_bps) ==
    [bar |-> bar, horizon |-> horizon, thr_long |-> ThrLong, thr_short |-> ThrShort,
     initial |-> 3, fee_bps |-> fee_bps, slip_bps |-> slip_bps]

NoArgs == [none |-> TRUE]

NoOut == [none |-> TRUE]

(***************************************************************************)
(* Specification of the horizon-to-steps conversion.                       *)
(***************************************************************************)
InitSteps ==
    /\ pc = "start"
    /\ call = "none"
    /\ df = <<>>
    /\ \E bar \in Bars, h \in 0..MaxHorizonMin : cfg = Config(bar, h, 0, 0)
    /\ args = NoArgs
    /\ out = NoOut

BarToSteps ==
    /\ pc = "start"
    /\ pc' = "returned"
    /\ call' = "_bar_to_steps"
    /\ out' = [steps |-> _bar_to_steps(cfg.bar, cfg.horizon)]
    /\ UNCHANGED <<df, cfg, args>>

BarToMinutes ==
    /\ pc = "start"
    /\ pc' = "returned"
    /\ call' = "_bar_to_minutes"
    /\ out' = [minutes |-> _bar_to_minutes(cfg.bar)]
    /\ UNCHANGED <<df, cfg, args>>

NextSteps == BarToSteps \/ BarToMinutes

SpecSteps == InitSteps /\ [][NextSteps]_vars

(***************************************************************************)
(* Specification of the trade segmentation, called on its own.             *)
(***************************************************************************)
SeqsUpTo(S, n) == UNION {[1..m -> S] : m \in 0..n}

InitTrade ==
    /\ pc = "start"
    /\ call = "none"
    /\ df = <<>>
    /\ cfg = Config(<<"1", "m">>, 1, 0, 0)
    /\ \E m \in 0..MaxLen :
         \E eq \in [1..m -> 0..MaxEquity], ps \in [1..m -> {-1, 0, 1}] :
            args = [equity |-> Series(RangeIndex(m), [i \in 1..m |-> RatInt(eq[i])]),
                    positions |-> Series(RangeIndex(m), ps)]
    /\ out = NoOut

TradeStats ==
    /\ pc = "start"
    /\ pc' = "returned"
    /\ call' = "_trade_stats_from_series"
    /\ out' = _trade_stats_from_series(args.equity, args.positions)
    /\ UNCHANGED <<df, cfg, args>>

NextTrade == TradeStats

SpecTrade == InitTrade /\ [][NextTrade]_vars

(***************************************************************************)
(* Specification of the pipeline: a candle series and a configuration,     *)
(* then one call of the feature builder (as train_pipeline makes it) or of *)
(* run_backtest.  The classifier is external: its probabilities, one per   *)
(* feature row, are any values of Probs.                                   *)
(***************************************************************************)
PipelineBars == { <<"1", "m">> }

FeeBps == {0, 2500}

SlipBps == {0, 2500}

Probs == {40, 55, 60}

Init ==
    /\ pc = "start"
    /\ call = "none"
    /\ df \in SeqsUpTo(1..MaxClose, MaxLen)
    /\ \E bar \in PipelineBars, h \in 1..MaxHorizon, fee \in FeeBps, slip \in SlipBps :
         cfg = Config(bar, h, fee, slip)
    /\ args = NoArgs
    /\ out = NoOut

BuildFromCandles ==
    /\ pc = "start"
    /\ pc' = "returned"
    /\ call' = "build_from_candles"
    /\ LET horizon_steps == _bar_to_steps(cfg.bar, cfg.horizon)
       IN  /\ args' = [horizon_steps |-> horizon_steps]
           /\ out' = build_from_candles(df, horizon_steps)
    /\ UNCHANGED <<df, cfg>>

RunBacktest ==
    /\ pc = "start"
    /\ call' = "run_backtest"
    /\ LET rows == Len(build_from_candles(df, _bar_to_steps(cfg.bar, cfg.horizon)).X.index)
       IN  \E probs \in [1..rows -> Probs] :
             /\ args' = [probs |-> probs]
             /\ out' = run_backtest(df, cfg, probs)
             /\ pc' = IF out'.raised THEN "raised" ELSE "returned"
    /\ UNCHANGED <<df, cfg>>

Next == BuildFromCandles \/ RunBacktest

Spec == Init /\ [][Next]_vars

(***************************************************************************)
(* Properties.                                                             *)
(***************************************************************************)
Returned(f) == pc = "returned" /\ call = f

\* The signal in force before row i (TLA+ index): 0 before the first row.
PrevSignal(sig, i) == IF i = 1 THEN 0 ELSE sig[i - 1]

Rate == Rat(cfg.fee_bps + cfg.slip_bps, 10000)

\* C1: in run_backtest the position behind the gross return of row t is
\* signal[t-1] for t >= 1 and 0 for row 0 (signal[n-1] never wraps into row 0),
\* and the gross return of row t is that position times close_return[t].
C1_ExecutionLag ==
    Returned("run_backtest") =>
        \A i \in 1..Len(out.sig) :
            /\ out.sig_shift[i] = PrevSignal(out.sig, i)
            /\ out.gross[i] = RatMul(RatInt(PrevSignal(out.sig, i)), out.ret[i])

C1_Witness ==
    /\ Returned("run_backtest")
    /\ Len(out.sig) >= 2
    /\ out.sig[1] = 1
    /\ out.sig[Len(out.sig)] = -1
    /\ out.gross[2] # RatInt(0)

\* C2: the cost subtracted from row t is |signal[t] - signal[t-1]| *
\* (fee_bps + slip_bps)/10000 with signal[-1] = 0: zero on every row where the
\* signal does not change, and on a long/short flip exactly twice the cost of a
\* row that opens or closes one side.
C2_TurnoverCost ==
    Returned("run_backtest") =>
        /\ \A i \in 1..Len(out.sig) :
            LET delta == Abs(out.sig[i] - PrevSignal(out.sig, i))
            IN  /\ out.cost[i] = Rat(delta * (cfg.fee_bps + cfg.slip_bps), 10000)
                /\ out.strat_ret[i] = RatSub(out.gross[i], out.cost[i])
                /\ (delta = 0 => out.cost[i] = RatInt(0))
        /\ \A i, j \in 1..Len(out.sig) :
            (/\ Abs(out.sig[i] - PrevSignal(out.sig, i)) = 2
             /\ Abs(out.sig[j] - PrevSignal(out.sig, j)) = 1)
            => out.cost[i] = RatMul(RatInt(2), out.cost[j])

C2_Witness ==
    /\ Returned("run_backtest")
    /\ Rate # RatInt(0)
    /\ Len(out.sig) >= 3
    /\ \E i, j, k \in 1..Len(out.sig) :
        /\ Abs(out.sig[i] - PrevSignal(out.sig, i)) = 2
        /\ Abs(out.sig[j] - PrevSignal(out.sig, j)) = 1
        /\ Abs(out.sig[k] - PrevSignal(out.sig, k)) = 0
        /\ out.cost[i] = RatMul(RatInt(2), Rate)
        /\ out.cost[k] = RatInt(0)

ConstantSignal(sig) == \A i, j \in 1..Len(sig) : sig[i] = sig[j]

\* C3 as stated: with a constant signal (all +1, all -1 or all 0) the cost
\* charged is zero on every row of the run, row 0 included.
C3_ConstantSignalNoCost ==
    (Returned("run_backtest") /\ ConstantSignal(out.sig)) =>
        \A i \in 1..Len(out.sig) : out.cost[i] = RatInt(0)

\* C3 as amended: with a constant signal the cost charged is zero on every
\* row t >= 1, and on row 0 it is |signal[0]| * (fee_bps + slip_bps)/10000, the
\* charge for entering from flat: zero when the signal is all 0.
C3_ConstantSignalEntryCostOnly ==
    (Returned("run_backtest") /\ ConstantSignal(out.sig)) =>
        /\ \A i \in 2..Len(out.sig) : out.cost[i] = RatInt(0)
        /\ out.cost[1] = Rat(Abs(out.sig[1]) * (cfg.fee_bps + cfg.slip_bps), 10000)
        /\ (out.sig[1] = 0 => out.cost[1] = RatInt(0))

C3_Witness ==
    /\ Returned("run_backtest")
    /\ ConstantSignal(out.sig)
    /\ Len(out.sig) >= 3
    /\ out.sig[1] = -1
    /\ cfg.fee_bps > 0 /\ cfg.slip_bps > 0
    /\ out.cost[1] = Rate
    /\ out.cost[3] = RatInt(0)

\* C4: the series run_backtest segments into trades and returns under
\* 'positions' is the executed (lag-1) position: 0 at row 0 whatever signal[0]
\* is, and signal[t-1] at row t >= 1.
C4_ReportedPositionsAreExecuted ==
    Returned("run_backtest") =>
        /\ out.positions.values = [i \in 1..Len(out.sig) |-> PrevSignal(out.sig, i)]
        /\ out.positions.values = out.sig_shift
        /\ out.trades = _trade_stats_from_series(out.equity,
                            Series(out.index, out.sig_shift)).n

\* The maximal contiguous runs of non-zero position, as pairs of rows (TLA+
\* indices), rows before the first and after the last taken as 0.
Runs(pos) ==
    {r \in (1..Len(pos)) \X (1..Len(pos)) :
        /\ r[1] <= r[2]
        /\ \A t \in r[1]..r[2] : pos[t] # 0
        /\ (r[1] = 1 \/ pos[r[1] - 1] = 0)
        /\ (r[2] = Len(pos) \/ pos[r[2] + 1] = 0)}

\* C5: _trade_stats_from_series returns as trade count the number of maximal
\* contiguous runs of non-zero position; every run gives one start and one end
\* with start <= end, the i-th start is paired with the end of the same run, and
\* a long/short flip inside a run begins no new trade.
C5_TradesAreMaximalRuns ==
    Returned("_trade_stats_from_series") =>
        LET pos == args.positions.values
        IN  /\ out.n = Cardinality(Runs(pos))
            /\ Len(out.start_idx) = out.n
            /\ Len(out.end_idx) = out.n
            /\ \A i \in 1..out.n :
                /\ out.start_idx[i] <= out.end_idx[i]
                /\ <<out.start_idx[i] + 1, out.end_idx[i] + 1>> \in Runs(pos)
            /\ \A i, j \in 1..out.n : i < j => out.end_idx[i] < out.start_idx[j]

C5_Witness ==
    /\ Returned("_trade_stats_from_series")
    /\ out.n = 2
    /\ \E t \in 1..(Len(args.positions.values) - 1) :
        /\ args.positions.values[t] = 1
        /\ args.positions.values[t + 1] = -1

\* C6: a trade is a win exactly when the equity at its end row is strictly
\* greater than the equity at its start row; the win rate is
\* 100 * wins / max(trade_count, 1); with no trades the count is 0 and the win
\* rate 0; the win rate lies in [0, 100].
C6_WinRate ==
    Returned("_trade_stats_from_series") =>
        LET pos == args.positions.values
            eq == args.equity.values
            won == {r \in Runs(pos) : eq[r[2]][1] > eq[r[1]][1]}
        IN  /\ out.wins = Cardinality(won)
            /\ out.win_rate[1] * Max(out.n, 1) = 100 * out.wins * out.win_rate[2]
            /\ out.win_rate[2] > 0
            /\ (Runs(pos) = {} => out.n = 0 /\ out.win_rate = RatInt(0))
            /\ 0 <= out.win_rate[1]
            /\ out.win_rate[1] <= 100 * out.win_rate[2]

C6_Witness ==
    /\ Returned("_trade_stats_from_series")
    /\ out.n = 2
    /\ out.wins = 1
    /\ out.win_rate = RatInt(50)
    /\ \E i \in 1..out.n :
        /\ out.start_idx[i] < out.end_idx[i]
        /\ FGT(loc(args.equity, out.end_idx[i]), loc(args.equity, out.start_idx[i]))

Built == Returned("build_from_candles")

\* C7: build_from_candles returns a feature matrix and a label series with the
\* same index and length: exactly the rows t whose forward close at t+h exists
\* are kept in both (the last min(h, n) rows are dropped from both, and both are
\* empty when h >= n).
C7_IndexAlignment ==
    Built =>
        LET n == Len(df)
            h == args.horizon_steps
            kept == {t \in 0..(n - 1) : t + h <= n - 1}
        IN  /\ out.X.index = out.y.index
            /\ Len(out.X.values) = Len(out.X.index)
            /\ Len(out.y.values) = Len(out.y.index)
            /\ Len(out.X.index) = n - Min(h, n)
            /\ out.X.index = RangeIndex(Cardinality(kept))
            /\ {out.X.index[i] : i \in 1..Len(out.X.index)} = kept
            /\ (h >= n => out.X.index = <<>> /\ out.y.values = <<>>)

C7_Witness ==
    /\ Built
    /\ args.horizon_steps = 2
    /\ Len(df) = 4
    /\ out.y.index = <<0, 1>>

C7_WitnessEmpty ==
    /\ Built
    /\ Len(df) >= 1
    /\ args.horizon_steps >= Len(df)
    /\ out.X.index = <<>>

\* C8: the label of a retained row t is 1 iff close[t+h]/close[t] - 1 >= 0, and
\* depends on close[t] and close[t+h] only: a candle series that agrees with
\* this one on all rows up to and including t+h gives row t the same label.
C8_NoLookAhead ==
    Built =>
        LET h == args.horizon_steps
        IN  \A i \in 1..Len(out.y.index) :
                LET t == out.y.index[i] + 1
                    y == RatSub(RatDiv(RatInt(df[t + h]), RatInt(df[t])), RatInt(1))
                IN  /\ t + h <= Len(df)
                    /\ (out.y.values[i] = 1 <=> RatGE(y, RatInt(0)))
                    /\ out.y.values[i] \in {0, 1}
                    /\ \A other \in SeqsUpTo(1..MaxClose, MaxLen) :
                        (/\ Len(other) >= t + h
                         /\ SubSeq(other, 1, t + h) = SubSeq(df, 1, t + h))
                        => LET oy == build_from_candles(other, h).y
                           IN  \E j \in 1..Len(oy.index) :
                                 /\ oy.index[j] = t - 1
                                 /\ oy.values[j] = out.y.values[i]

C8_Witness ==
    /\ Built
    /\ Len(out.y.index) >= 2
    /\ out.y.values[1] = 0
    /\ out.y.values[2] = 1
    /\ \E other \in SeqsUpTo(1..MaxClose, MaxLen) :
        /\ Len(other) = Len(df)
        /\ SubSeq(other, 1, 1 + args.horizon_steps) = SubSeq(df, 1, 1 + args.horizon_steps)
        /\ other # df
        /\ build_from_candles(other, args.horizon_steps).y.values[2] = 0

\* The bars C9 is about: a positive integer multiplier and a unit of minutes,
\* hours or days.
UnitMinutes(unit) ==
    CASE unit = "m" -> 1 [] unit = "h" -> 60 [] unit = "d" -> 1440 [] OTHER -> 0

Multiplier(bar) == SubSeq(bar, 1, Len(bar) - 1)

WellFormedBar(bar) ==
    /\ Len(bar) >= 2
    /\ \A i \in 1..(Len(bar) - 1) : bar[i] \in DOMAIN DigitValue
    /\ DecimalValue(Multiplier(bar)) >= 1
    /\ lower(bar[Len(bar)]) \in {"m", "h", "d"}

BarDuration(bar) == DecimalValue(Multiplier(bar)) * UnitMinutes(lower(bar[Len(bar)]))

\* C9: for a bar in minutes, hours or days with a positive integer multiplier
\* and a horizon in minutes >= 0, _bar_to_steps returns
\* max(1, floor(horizon_minutes / bar_duration_in_minutes)), the bar duration
\* being the multiplier times 1, 60 or 1440 minutes.
C9_BarToSteps ==
    (Returned("_bar_to_steps") /\ WellFormedBar(cfg.bar)) =>
        out.steps = Max(1, cfg.horizon \div BarDuration(cfg.bar))

\* C10: when the candle series is empty or the horizon truncation drops every
\* row, run_backtest does not raise and returns the empty result: samples 0,
\* trades 0, win rate 0, final_equity the initial capital.
C10_EmptyResult ==
    (/\ call = "run_backtest"
     /\ (df = <<>> \/ _bar_to_steps(cfg.bar, cfg.horizon) >= Len(df)))
    => /\ pc = "returned"
       /\ out.samples = 0
       /\ out.trades = 0
       /\ out.win_rate_pct = RatInt(0)
       /\ out.final_equity = RatInt(cfg.initial)

ConstantSeries(a) == \A i, j \in 1..Len(a) : a[i] = a[j]

\* C11: for every run of run_backtest whose net-return series is constant
\* (zero variance), whatever the constant is, the reported Sharpe ratio is 0.
C11_ZeroVarianceSharpeZero ==
    (Returned("run_backtest") /\ ConstantSeries(out.strat_ret)) =>
        out.sharpe_sign = 0

====
